---- MODULE Spec2Model ----
(***************************************************************************)
(* Model of the article analyser: the step pipeline of src/src/analyzer.py *)
(* (ArticleAnalyzer), the PDF text extraction of                           *)
(* src/src/utils/pdf_extractor.py and the Tk front end of                  *)
(* src/src/gui/main_window.py (MainWindow).                                *)
(*                                                                         *)
(* Python str values are TLA+ strings; Optional[str] is a sequence of      *)
(* length 0 (None) or 1 (the string).  A dict is the sequence of its       *)
(* items in insertion order.                                               *)
(***************************************************************************)
EXTENDS Naturals, Sequences, FiniteSets, TLC

(***************************************************************************)
(* Bounds of the model.                                                    *)
(***************************************************************************)
\* how often two consecutive completion responses of one run may differ
MaxPortChanges == 1

\* pages of a PDF
MaxPages == 1

\* seconds the clock may advance during a session
MaxClock == 1

\* analyses started during a session
MaxRuns == 2

\* entries of a mapping handed to display_results directly
MaxEntries == 3

(***************************************************************************)
(* Python values and str methods.                                          *)
(***************************************************************************)
None == <<>>

Some(s) == <<s>>

\* the characters str.strip() removes
Whitespace == {" ", "\n", "\t", "\r", "\f"}

RECURSIVE LStrip(_)
LStrip(s) ==
  IF Len(s) > 0 /\ SubSeq(s, 1, 1) \in Whitespace THEN LStrip(Tail(s)) ELSE s

RECURSIVE RStrip(_)
RStrip(s) ==
  IF Len(s) > 0 /\ SubSeq(s, Len(s), Len(s)) \in Whitespace
    THEN RStrip(SubSeq(s, 1, Len(s) - 1))
    ELSE s

\* a strip() that removes nothing
Strip_identity(s) == s

\* str.strip()
Strip(s) == RStrip(LStrip(s))

\* truth value of an Optional[str]: None and "" are falsy
Truthy(o) == o # None /\ o[1] # ""

(***************************************************************************)
(* The catalog of analysis steps.                                          *)
(***************************************************************************)
AnalysisStep(n, d, p) == [name |-> n, description |-> d, prompt |-> p]

ANALYSIS_STEPS == <<
  AnalysisStep("resumen_articulo", "Resumen del Arti^culo",
    "Elabora un resumen detallado del arti^culo cienti^fico, destacando los puntos ma^s importantes."),
  AnalysisStep("base_teorica", "Bases Teo^ricas",
    "?~Cua^les son las bases teo^ricas sobre las cuales se fundamenta el arti^culo de investigacio^n?"),
  AnalysisStep("metodologia", "Metodologi^a",
    "?~Cua^l es la metodologi^a con la que trabaja este arti^culo de investigacio^n? Describe detalladamente los me^todos utilizados."),
  AnalysisStep("conceptos_clave", "Conceptos Clave",
    "?~Cua^les son los conceptos clave que aborda el arti^culo? Enumera y explica brevemente cada uno."),
  AnalysisStep("objetivos", "Objetivos de Investigacio^n",
    "?~Cua^les son los objetivos principales de la investigacio^n presentada en el arti^culo?"),
  AnalysisStep("resultados", "Resultados Principales",
    "?~Cua^les son los principales resultados y hallazgos presentados en el arti^culo?"),
  AnalysisStep("evaluacion_critica", "Evaluacio^n Cri^tica",
    "Realiza una evaluacio^n cri^tica de los me^todos y resultados presentados. ?~Cua^les son las fortalezas y debilidades?"),
  AnalysisStep("contexto_literatura", "Contextualizacio^n en la Literatura",
    "?~Co^mo se contextualiza este arti^culo dentro de la literatura cienti^fica existente? ?~Que^ aportes novedosos presenta?"),
  AnalysisStep("implicaciones", "Implicaciones y Futuras Direcciones",
    "?~Cua^les son las implicaciones de estos hallazgos y que^ futuras li^neas de investigacio^n sugiere el arti^culo?"),
  AnalysisStep("conclusiones", "Conclusiones",
    "Resume las conclusiones principales del arti^culo y su relevancia cienti^fica.") >>

StepNames == {ANALYSIS_STEPS[i].name : i \in DOMAIN ANALYSIS_STEPS}

(***************************************************************************)
(* dict: the sequence of its items, in insertion order.                    *)
(***************************************************************************)
EmptyDict == <<>>

Keys(d) == {d[i].k : i \in DOMAIN d}

KeyList(d) == [i \in DOMAIN d |-> d[i].k]

HasKey(d, key) == \E i \in DOMAIN d : d[i].k = key

DictGet(d, key) == d[CHOOSE i \in DOMAIN d : d[i].k = key].v

\* d[key] = val: an existing key keeps its place, a new one goes last
DictSet(d, key, val) ==
  IF HasKey(d, key)
    THEN [i \in DOMAIN d |-> IF d[i].k = key THEN [k |-> key, v |-> val] ELSE d[i]]
    ELSE Append(d, [k |-> key, v |-> val])

(***************************************************************************)
(* The completion service, as the client sees it: a response with a first  *)
(* choice whose content is a string or None, a response with no choices,   *)
(* or an exception with a message.                                         *)
(***************************************************************************)
Content(c) == [kind |-> "choices", content |-> c, msg |-> ""]

NoChoices == [kind |-> "nochoices", content |-> None, msg |-> ""]

ClientError(m) == [kind |-> "raise", content |-> None, msg |-> m]

Payloads == {" ", " a b\n"}

Messages == {"boom "}

Responses ==
  {Content(Some(p)) : p \in Payloads} \cup {Content(None), NoChoices}
    \cup {ClientError(m) : m \in Messages}

\* the answers the service gives a run of the application
GuiResponses == {Content(Some(" a b\n")), ClientError("boom ")}

\* str(e) of the AttributeError of None.strip()
NoneStripMsg == "'NoneType' object has no attribute 'strip'"

(***************************************************************************)
(* What a call returns to its caller: a value or an exception.             *)
(***************************************************************************)
Return(v) == [kind |-> "return", value |-> v, exc |-> "", msg |-> ""]

Raise(e, m) == [kind |-> "raise", value |-> "", exc |-> e, msg |-> m]

\* an _analyze_step that turns the exception into a string itself
_analyze_step_swallow(resp) ==
  CASE resp.kind = "raise" -> Return("Error: " \o resp.msg)
    [] resp.kind = "nochoices" -> Return("Error: No se obtuvo respuesta del modelo")
    [] resp.kind = "choices" /\ resp.content = None -> Return("Error: " \o NoneStripMsg)
    [] OTHER -> Return(Strip(resp.content[1]))

\* a step executor that gives an empty text for a response without content
_analyze_step_lenient(resp) ==
  CASE resp.kind = "raise" -> Raise("Exception", resp.msg)
    [] resp.kind = "nochoices" -> Return("")
    [] resp.kind = "choices" /\ resp.content = None -> Return("")
    [] OTHER -> Return(Strip(resp.content[1]))

\* ArticleAnalyzer._analyze_step, given the response of the completion call
_analyze_step(resp) ==
  CASE resp.kind = "raise" -> Raise("Exception", resp.msg)
    [] resp.kind = "nochoices" -> Return("Error: No se obtuvo respuesta del modelo")
    [] resp.kind = "choices" /\ resp.content = None ->
         Raise("AttributeError", NoneStripMsg)
    [] OTHER -> Return(Strip(resp.content[1]))

\* an except block that stores the bare message
StepEntry_bare(r) == IF r.kind = "return" THEN r.value ELSE r.msg

\* the try/except around the step in analyze_article: the entry stored
StepEntry(r) == IF r.kind = "return" THEN r.value ELSE "Error: " \o r.msg

(***************************************************************************)
(* More of str, pathlib.Path and datetime.                                 *)
(***************************************************************************)
\* Strings are written in ASCII, the form in which TLC keeps them intact: a
\* letter with an acute accent is the letter followed by ^, a letter with a
\* tilde the letter followed by ~, and the opening question mark is ?~.  A
\* mark belongs to the character before it.
Marks == {"^", "~"}

LowerCase == "abcdefghijklmnopqrstuvwxyz"

UpperCase == "ABCDEFGHIJKLMNOPQRSTUVWXYZ"

\* the characters of s
Chars(s) == {SubSeq(s, i, i) : i \in 1..Len(s)}

\* the table that maps the i-th character of from to the i-th of to
CaseTable(from, to) ==
  [c \in Chars(from) |->
     LET i == CHOOSE i \in 1..Len(from) : SubSeq(from, i, i) = c
     IN  SubSeq(to, i, i)]

ToUpper == CaseTable(LowerCase, UpperCase)

ToLower == CaseTable(UpperCase, LowerCase)

\* s with every character of the table replaced by its image
MapStr(s, table) ==
  LET map[t \in STRING] ==
        IF t = "" THEN ""
        ELSE (IF SubSeq(t, 1, 1) \in DOMAIN table THEN table[SubSeq(t, 1, 1)]
              ELSE SubSeq(t, 1, 1))
             \o map[Tail(t)]
  IN  map[s]

\* str.upper()
Upper(s) == MapStr(s, ToUpper)

\* str.lower()
Lower(s) == MapStr(s, ToLower)

\* s[:n]: the first n characters of s, each with the marks that follow it
Take(s, n) ==
  LET take[a \in STRING \X Nat] ==
        IF a[1] = "" THEN ""
        ELSE IF SubSeq(a[1], 1, 1) \in Marks
          THEN SubSeq(a[1], 1, 1) \o take[<<Tail(a[1]), a[2]>>]
        ELSE IF a[2] = 0 THEN ""
        ELSE SubSeq(a[1], 1, 1) \o take[<<Tail(a[1]), a[2] - 1>>]
  IN  take[<<s, n>>]

\* c * n
RECURSIVE Rep(_, _)
Rep(c, n) == IF n = 0 THEN "" ELSE c \o Rep(c, n - 1)

\* sep.join(items)
Join(items, sep) ==
  LET join[q \in Seq(STRING)] ==
        IF q = <<>> THEN ""
        ELSE IF Len(q) = 1 THEN q[1]
        ELSE q[1] \o sep \o join[Tail(q)]
  IN  join[items]

\* the last position of character c in s, 0 when there is none
RECURSIVE LastIndex(_, _)
LastIndex(s, c) ==
  IF s = "" THEN 0
  ELSE IF SubSeq(s, Len(s), Len(s)) = c THEN Len(s)
  ELSE LastIndex(SubSeq(s, 1, Len(s) - 1), c)

\* Path(p).name
PathName(p) == SubSeq(p, LastIndex(p, "/") + 1, Len(p))

\* Path(p).suffix: from the last dot of the name, unless the name starts
\* or ends with it
PathSuffix(p) ==
  LET n == PathName(p)
      d == LastIndex(n, ".")
  IN  IF d <= 1 \/ d = Len(n) THEN "" ELSE SubSeq(n, d, Len(n))

Digits == "0123456789"

\* a number below 100 as two digits
Pad2(n) == SubSeq(Digits, (n \div 10) + 1, (n \div 10) + 1)
             \o SubSeq(Digits, (n % 10) + 1, (n % 10) + 1)

\* datetime.now().strftime('%Y-%m-%d %H:%M:%S'), the clock counting the
\* seconds of one day
Strftime(now) ==
  "2026-01-01 " \o Pad2(now \div 3600) \o ":" \o Pad2((now \div 60) % 60)
    \o ":" \o Pad2(now % 60)

(***************************************************************************)
(* PDFExtractor.extract_text                                               *)
(***************************************************************************)
\* a file as the extractor finds it
File(e, r, p) == [exists |-> e, readable |-> r, pages |-> p]

\* texto_completo after the loop over the pages
RECURSIVE PagesText(_)
PagesText(pages) ==
  IF pages = <<>> THEN "" ELSE pages[1] \o "\n" \o PagesText(Tail(pages))

\* an extractor that returns what it read, as the first version of the
\* program did
extract_text_unchecked(path, f) ==
  IF ~f.exists THEN Raise("FileNotFoundError", "El archivo no existe: " \o path)
  ELSE IF Lower(PathSuffix(path)) # ".pdf"
    THEN Raise("ValueError", "El archivo no es un PDF: " \o path)
  ELSE IF ~f.readable
    THEN Raise("RuntimeError", "Error al procesar el PDF: cannot open")
  ELSE Return(Some(PagesText(f.pages)))

\* PDFExtractor.extract_text(path), the file at path being f
extract_text(path, f) ==
  IF ~f.exists THEN Raise("FileNotFoundError", "El archivo no existe: " \o path)
  ELSE IF Lower(PathSuffix(path)) # ".pdf"
    THEN Raise("ValueError", "El archivo no es un PDF: " \o path)
  ELSE IF ~f.readable
    THEN Raise("RuntimeError", "Error al procesar el PDF: cannot open")
  ELSE IF Strip(PagesText(f.pages)) = "" THEN Return(None)
  ELSE Return(Some(Strip(PagesText(f.pages))))

(***************************************************************************)
(* MainWindow.format_full_results and the tabs of display_results          *)
(***************************************************************************)
EqRule == Rep("=", 80)

DashRule == Rep("-", 80)

\* lines 376-382
FormatHeader(path, now) ==
  << EqRule, "ANA^LISIS COMPLETO DEL ARTI^CULO CIENTI^FICO", EqRule,
     "\nFecha: " \o Strftime(now), "Archivo: " \o PathName(path), "\n" >>

\* lines 386-389
FormatSection(s, results) ==
  << "\n" \o DashRule, "\n" \o Upper(s.description), DashRule,
     "\n" \o DictGet(results, s.name) \o "\n" >>

\* sections in the order of the mapping, for every key
RECURSIVE FormatSections_by_mapping(_, _)
FormatSections_by_mapping(results, i) ==
  IF i > Len(results) THEN <<>>
  ELSE << "\n" \o DashRule, "\n" \o Upper(results[i].k), DashRule,
          "\n" \o results[i].v \o "\n" >>
         \o FormatSections_by_mapping(results, i + 1)

\* lines 384-389: the loop over the catalog, from step i on
RECURSIVE FormatSections(_, _)
FormatSections(results, i) ==
  IF i > Len(ANALYSIS_STEPS) THEN <<>>
  ELSE (IF HasKey(results, ANALYSIS_STEPS[i].name)
          THEN FormatSection(ANALYSIS_STEPS[i], results)
          ELSE <<>>)
       \o FormatSections(results, i + 1)

\* the list output of format_full_results
FormatItems(results, path, now) ==
  FormatHeader(path, now) \o FormatSections(results, 1)

\* MainWindow.format_full_results, with the path selected and the clock
format_full_results(results, path, now) == Join(FormatItems(results, path, now), "\n")

\* lines 339-342, 353: the tabs display_results creates, from step i on
RECURSIVE ResultTabs(_, _)
ResultTabs(results, i) ==
  IF i > Len(ANALYSIS_STEPS) THEN <<>>
  ELSE (IF HasKey(results, ANALYSIS_STEPS[i].name)
          THEN << [title |-> Take(ANALYSIS_STEPS[i].description, 20),
                   content |-> DictGet(results, ANALYSIS_STEPS[i].name)] >>
          ELSE <<>>)
       \o ResultTabs(results, i + 1)

(***************************************************************************)
(* State.                                                                  *)
(***************************************************************************)
VARIABLES
  caller,        \* who runs the analyzer: "direct" (a call of its API) or "gui"
  op,            \* the method called: "analyze_article" or "analyze_custom_step"
  texto,         \* the article text passed in (Optional[str])
  callback,      \* progress_callback: "none", "external" or "gui"
  pc,            \* position of the thread that runs the analyzer
  idx,           \* analyze_article: idx of the loop
  total_steps,   \* analyze_article: total_steps
  resultados,    \* analyze_article: resultados
  step,          \* the AnalysisStep of the iteration, or of the custom call
  inflight,      \* completion calls issued and not yet answered
  lastResp,      \* the last response of the completion service (None: none yet)
  portChanges,   \* how often consecutive responses differed
  trace,         \* the events of the current call, in order
  result,        \* what the call gave its caller (None: nothing yet)
  pdf_path,      \* MainWindow.pdf_path
  api_key,       \* MainWindow.api_key
  current_results, \* MainWindow.current_results
  is_analyzing,  \* MainWindow.is_analyzing
  button,        \* state of MainWindow.analyze_button
  results_text,  \* content of MainWindow.results_text
  tabs,          \* the tabs of MainWindow.notebook after the first
  after_queue,   \* callbacks given to root.after that change a field here
  clock,         \* the last reading of the clock, in seconds
  mainpc,        \* the main thread: "idle" or inside a dialog
  runs,          \* workers started so far
  extracted,     \* what extract_text gave the current run (None: not called)
  constructed,   \* the current run has constructed its ArticleAnalyzer
  errors,        \* the messages the current run passed to show_error
  progress_log,  \* the update_progress requests of the current run
  written,       \* the report written since the run started (None: none)
  shown_meta,    \* path and clock read by the rendering on display
  written_meta,  \* path and clock read by the rendering on save
  tails,         \* workers that ran line 306 and have line 307 left
  infos,         \* the messages the current run passed to showinfo
  saved_results, \* the mapping rendered by the last save of the run
  source_path    \* the path the current run gave to extract_text

pipeVars ==
  <<caller, op, texto, callback, pc, idx, total_steps, resultados, step,
    inflight, lastResp, portChanges, trace, result>>

\* the front end, but for progress_log
guiRest ==
  <<pdf_path, api_key, current_results, is_analyzing, button, results_text,
    tabs, after_queue, clock, mainpc, runs, extracted, constructed,
    errors, written, shown_meta, written_meta, tails, infos, saved_results, source_path>>

guiVars == <<guiRest, progress_log>>

vars == <<pipeVars, guiVars>>

(***************************************************************************)
(* Inputs of a direct call.                                                *)
(***************************************************************************)
ArticleTexts == {"", " ", " \n", "a", " a b\n"}

TextArgs == {None} \cup {Some(s) : s \in ArticleTexts}

CustomPrompts == {"", "Resume"}

NoStep == AnalysisStep("", "", "")

(***************************************************************************)
(* Events of a call.                                                       *)
(***************************************************************************)
\* the arguments progress_callback is called with, with the 0-based index
CallbackArgs_zero_based(s, i, n) ==
  [ev |-> "sink", idx |-> i - 1, name |-> s.name, description |-> s.description,
   total |-> n]

\* the arguments progress_callback is called with
CallbackArgs(s, i, n) ==
  [ev |-> "sink", idx |-> i, name |-> s.name, description |-> s.description,
   total |-> n]

CallEv(s, i, t) == [ev |-> "call", idx |-> i, prompt |-> s.prompt, texto |-> t]

StoreEv(s, i, r) == [ev |-> "store", idx |-> i, key |-> s.name, resp |-> r]

Sinks == SelectSeq(trace, LAMBDA e : e.ev = "sink")

Calls == SelectSeq(trace, LAMBDA e : e.ev = "call")

Stores == SelectSeq(trace, LAMBDA e : e.ev = "store")

(***************************************************************************)
(* The completion service answers a call.  Its answers are free, up to     *)
(* MaxPortChanges changes between consecutive answers.                     *)
(***************************************************************************)
Service == IF caller = "gui" THEN GuiResponses ELSE Responses

\* the steps at which the service may answer otherwise than to the step
\* before: any step of a direct call, the second of a run of the application
ChangeSteps == IF caller = "gui" THEN {2} ELSE DOMAIN ANALYSIS_STEPS \cup {0}

\* resp is what the service answered last, or its first answer
SameAnswer(resp) == IF lastResp = None THEN TRUE ELSE lastResp[1] = resp

Answers(resp) ==
  /\ resp \in Service
  /\ IF SameAnswer(resp)
       THEN portChanges' = portChanges
       ELSE /\ portChanges < MaxPortChanges
            /\ idx \in ChangeSteps
            /\ portChanges' = portChanges + 1
  /\ lastResp' = Some(resp)

\* where control goes when the analyzer call ends
AfterCall == IF caller = "direct" THEN "done" ELSE "ra_after_analyze"

(***************************************************************************)
(* ArticleAnalyzer.analyze_article                                         *)
(***************************************************************************)
\* a loop body that reports progress after the step
LoopBody_step_first == <<"aa_call", "aa_progress">>

\* the statements of one iteration, in order: the callback, then the step
LoopBody == <<"aa_progress", "aa_call">>

\* control after statement n of the body: the next statement, the next
\* iteration, or the return
Advance(n) ==
  IF n < Len(LoopBody) THEN [pc |-> LoopBody[n + 1], idx |-> idx]
  ELSE IF idx < total_steps THEN [pc |-> LoopBody[1], idx |-> idx + 1]
  ELSE [pc |-> "aa_return", idx |-> idx]

Place(p) == CHOOSE n \in DOMAIN LoopBody : LoopBody[n] = p

\* lines 108-114: the precondition, then the empty mapping
analyze_article_validate ==
  /\ pc = "aa_validate"
  /\ IF ~Truthy(texto) \/ Strip(texto[1]) = ""
       THEN /\ result' = Some(Raise("ValueError", "El texto del arti^culo esta^ vaci^o"))
            /\ pc' = AfterCall
            /\ UNCHANGED <<resultados, total_steps, idx, step>>
       ELSE /\ resultados' = EmptyDict
            /\ total_steps' = Len(ANALYSIS_STEPS)
            /\ idx' = 1
            /\ step' = ANALYSIS_STEPS[1]
            /\ pc' = LoopBody[1]
            /\ UNCHANGED result
  /\ UNCHANGED <<caller, op, texto, callback, inflight, lastResp, portChanges,
                 trace>>
  /\ UNCHANGED guiVars

\* the loop goes on with the next statement, step or the return
Continue(n) ==
  /\ pc' = Advance(n).pc
  /\ idx' = Advance(n).idx
  /\ step' = ANALYSIS_STEPS[Advance(n).idx]

\* MainWindow.update_progress(message, value, maximum), the value being the
\* quotient num / den
update_progress(message, num, den, maximum) ==
  progress_log' =
    Append(progress_log,
           [message |-> message, num |-> num, den |-> den, maximum |-> maximum])

\* str(n) for the numbers of steps
Str(n) == IF n < 10 THEN SubSeq(Digits, n + 1, n + 1) ELSE Pad2(n)

\* MainWindow.progress_callback
progress_callback(s, current, total) ==
  update_progress(s.description \o " (" \o Str(current) \o "/" \o Str(total) \o ")",
                  current * 100, total, 100)

\* lines 119-121: the callback, outside the try: it returns or raises
analyze_article_progress ==
  /\ pc = "aa_progress"
  /\ \/ /\ callback = "none"
        /\ Continue(Place("aa_progress"))
        /\ UNCHANGED <<trace, result>>
     \/ /\ callback # "none"
        /\ trace' = Append(trace, CallbackArgs(step, idx, total_steps))
        /\ \/ /\ Continue(Place("aa_progress"))
              /\ UNCHANGED result
           \/ /\ callback = "external"
              /\ result' = Some(Raise("CallbackError", "callback"))
              /\ pc' = AfterCall
              /\ UNCHANGED <<idx, step>>
  /\ UNCHANGED <<caller, op, texto, callback, total_steps, resultados, inflight,
                 lastResp, portChanges>>
  /\ IF callback = "gui"
       THEN progress_callback(step, idx, total_steps) /\ UNCHANGED guiRest
       ELSE UNCHANGED guiVars

\* lines 125, 149-156: the completion call is issued
analyze_article_call ==
  /\ pc = "aa_call"
  /\ trace' = Append(trace, CallEv(step, idx, texto[1]))
  /\ inflight' = inflight + 1
  /\ pc' = "aa_wait"
  /\ UNCHANGED <<caller, op, texto, callback, idx, total_steps, resultados, step,
                 lastResp, portChanges, result>>
  /\ UNCHANGED guiVars

\* an except block that logs the failure and stores nothing
analyze_article_store_drop ==
  /\ pc = "aa_wait"
  /\ \E resp \in Service :
       /\ Answers(resp)
       /\ resultados' =
            IF _analyze_step(resp).kind = "return"
              THEN DictSet(resultados, step.name, _analyze_step(resp).value)
              ELSE resultados
       /\ trace' = Append(trace, StoreEv(step, idx, resp))
  /\ inflight' = inflight - 1
  /\ Continue(Place("aa_call"))
  /\ UNCHANGED <<caller, op, texto, callback, total_steps, result>>
  /\ UNCHANGED guiVars

\* an analyzer that fills the mapping the window holds, entry by entry
analyze_article_store_shared ==
  /\ pc = "aa_wait"
  /\ \E resp \in Service :
       /\ Answers(resp)
       /\ resultados' = DictSet(resultados, step.name, StepEntry(_analyze_step(resp)))
       /\ trace' = Append(trace, StoreEv(step, idx, resp))
  /\ current_results' = resultados'
  /\ inflight' = inflight - 1
  /\ Continue(Place("aa_call"))
  /\ UNCHANGED <<caller, op, texto, callback, total_steps, result>>
  /\ UNCHANGED <<pdf_path, api_key, is_analyzing, button, results_text, tabs,
                 after_queue, clock, mainpc, runs, extracted, constructed,
                 errors, written, shown_meta, written_meta, tails, infos,
                 saved_results, source_path, progress_log>>

\* an except block that empties the mapping when a step fails
analyze_article_store_rollback ==
  /\ pc = "aa_wait"
  /\ \E resp \in Service :
       /\ Answers(resp)
       /\ resultados' =
            IF _analyze_step(resp).kind = "return"
              THEN DictSet(resultados, step.name, _analyze_step(resp).value)
              ELSE DictSet(EmptyDict, step.name, StepEntry(_analyze_step(resp)))
       /\ trace' = Append(trace, StoreEv(step, idx, resp))
  /\ inflight' = inflight - 1
  /\ Continue(Place("aa_call"))
  /\ UNCHANGED <<caller, op, texto, callback, total_steps, result>>
  /\ UNCHANGED guiVars

\* an except block that calls the step again when it fails
analyze_article_store_retry ==
  /\ pc = "aa_wait"
  /\ \E resp \in Service :
       /\ Answers(resp)
       /\ IF _analyze_step(resp).kind = "return"
            THEN /\ resultados' = DictSet(resultados, step.name, _analyze_step(resp).value)
                 /\ trace' = Append(trace, StoreEv(step, idx, resp))
                 /\ Continue(Place("aa_call"))
            ELSE /\ pc' = "aa_call"
                 /\ UNCHANGED <<resultados, trace, idx, step>>
  /\ inflight' = inflight - 1
  /\ UNCHANGED <<caller, op, texto, callback, total_steps, result>>
  /\ UNCHANGED guiVars

\* lines 126-132, 158-165: the call is answered and the entry stored
analyze_article_store ==
  /\ pc = "aa_wait"
  /\ \E resp \in Service :
       /\ Answers(resp)
       /\ resultados' = DictSet(resultados, step.name, StepEntry(_analyze_step(resp)))
       /\ trace' = Append(trace, StoreEv(step, idx, resp))
  /\ inflight' = inflight - 1
  /\ Continue(Place("aa_call"))
  /\ UNCHANGED <<caller, op, texto, callback, total_steps, result>>
  /\ UNCHANGED guiVars

\* line 135
analyze_article_return ==
  /\ pc = "aa_return"
  /\ result' = Some(Return(resultados))
  /\ pc' = AfterCall
  /\ UNCHANGED <<caller, op, texto, callback, idx, total_steps, resultados, step,
                 inflight, lastResp, portChanges, trace>>
  /\ UNCHANGED guiVars

(***************************************************************************)
(* ArticleAnalyzer.analyze_custom_step                                     *)
(***************************************************************************)
\* lines 184-185, 149-156: the step is built and the completion call issued
analyze_custom_step_call ==
  /\ pc = "cs_call"
  /\ \E p \in CustomPrompts :
       /\ step' = AnalysisStep("custom", "Ana^lisis personalizado", p)
       /\ trace' = Append(trace, CallEv(step', 0, texto[1]))
  /\ inflight' = inflight + 1
  /\ pc' = "cs_wait"
  /\ UNCHANGED <<caller, op, texto, callback, idx, total_steps, resultados,
                 lastResp, portChanges, result>>
  /\ UNCHANGED guiVars

\* lines 158-165, 185: what _analyze_step gives is what the caller gets
analyze_custom_step_return ==
  /\ pc = "cs_wait"
  /\ \E resp \in Service :
       /\ Answers(resp)
       /\ result' = Some(_analyze_step(resp))
  /\ inflight' = inflight - 1
  /\ pc' = "done"
  /\ UNCHANGED <<caller, op, texto, callback, idx, total_steps, resultados, step,
                 trace>>
  /\ UNCHANGED guiVars

(***************************************************************************)
(* MainWindow                                                              *)
(***************************************************************************)
ApiKeys == {"", "sk-test"}

Paths == {"/docs/B.PDF", "/docs/notes.txt"}

PageTexts == {" ", " a"}

RECURSIVE PagesOfLen(_)
PagesOfLen(n) ==
  IF n = 0 THEN {<<>>}
  ELSE {Append(p, t) : p \in PagesOfLen(n - 1), t \in PageTexts}

\* the files an extraction may find at a path
Files ==
  {File(FALSE, TRUE, <<>>), File(TRUE, FALSE, <<>>)}
    \cup {File(TRUE, TRUE, p) : p \in UNION {PagesOfLen(n) : n \in 0..MaxPages}}

NoMeta == [path |-> "", now |-> 0]

\* MainWindow.__init__, but for the fields an entry point draws
GuiInit ==
  /\ is_analyzing = FALSE
  /\ button = "normal"
  /\ results_text = ""
  /\ tabs = <<>>
  /\ after_queue = <<>>
  /\ clock = 0
  /\ mainpc = "idle"
  /\ runs = 0
  /\ extracted = None
  /\ constructed = FALSE
  /\ errors = <<>>
  /\ progress_log = <<>>
  /\ written = None
  /\ shown_meta = NoMeta
  /\ written_meta = NoMeta
  /\ tails = 0
  /\ infos = <<>>
  /\ saved_results = EmptyDict
  /\ source_path = ""

\* MainWindow.show_error: the dialog is shown by the event loop
show_error(message) ==
  /\ errors' = Append(errors, message)
  /\ UNCHANGED after_queue

\* lines 219-228: the file dialog returns a path, or "" when cancelled
select_pdf ==
  /\ mainpc = "idle"
  /\ \E filename \in Paths \cup {""} :
       pdf_path' = IF filename # "" THEN filename ELSE pdf_path
  /\ UNCHANGED <<pipeVars, progress_log, api_key, current_results, is_analyzing,
                 button, results_text, tabs, after_queue, clock, mainpc, runs, extracted, constructed, errors, written, shown_meta,
                 written_meta, tails, infos, saved_results, source_path>>

\* the user types in the entry bound to api_key
edit_api_key ==
  /\ mainpc = "idle"
  /\ \E k \in ApiKeys : k # api_key /\ api_key' = k
  /\ UNCHANGED <<pipeVars, progress_log, pdf_path, current_results, is_analyzing,
                 button, results_text, tabs, after_queue, clock, mainpc, runs, extracted, constructed, errors, written, shown_meta,
                 written_meta, tails, infos, saved_results, source_path>>

\* lines 417-426
clear_results ==
  /\ results_text' = ""
  /\ current_results' = EmptyDict
  /\ tabs' = <<>>

\* the button "Limpiar"
clear_results_clicked ==
  /\ mainpc = "idle"
  /\ clear_results
  /\ UNCHANGED <<pipeVars, progress_log, pdf_path, api_key, is_analyzing, button,
                 after_queue, clock, mainpc, runs, extracted, constructed,
                 errors, written, shown_meta, written_meta, tails, infos, saved_results, source_path>>

\* the dialogs of lines 234, 238 and 242, while open
RefusalDialogs == {"showerror_api_key", "showerror_pdf", "showwarning_busy"}

\* lines 233-243: the three validations; the dialog to open, or "idle" when
\* the start is accepted
Refusal ==
  IF api_key = "" THEN "showerror_api_key"
  ELSE IF pdf_path = "" THEN "showerror_pdf"
  ELSE IF is_analyzing THEN "showwarning_busy"
  ELSE "idle"

\* lines 245-254: the results are cleared, the button disabled, the flag set
\* and the worker started
start_analysis_launch ==
  /\ runs < MaxRuns
  /\ clear_results
  /\ button' = "disabled"
  /\ is_analyzing' = TRUE
  /\ runs' = runs + 1
  /\ pc' = "ra_extract"
  /\ texto' = None
  /\ idx' = 0
  /\ total_steps' = 0
  /\ resultados' = EmptyDict
  /\ step' = NoStep
  /\ trace' = <<>>
  /\ result' = None
  /\ extracted' = None
  /\ constructed' = FALSE
  /\ errors' = <<>>
  /\ progress_log' = <<>>
  /\ written' = None
  /\ shown_meta' = NoMeta
  /\ written_meta' = NoMeta
  /\ infos' = <<>>
  /\ saved_results' = EmptyDict
  /\ source_path' = ""
  /\ UNCHANGED <<caller, op, callback, inflight, lastResp, portChanges,
                 pdf_path, api_key, after_queue, clock, mainpc, tails>>

\* a start that clears the results before it validates
start_analysis_clear_first ==
  /\ mainpc = "idle"
  /\ button = "normal"
  /\ IF Refusal # "idle"
       THEN /\ mainpc' = Refusal
            /\ clear_results
            /\ UNCHANGED <<pipeVars, progress_log, pdf_path, api_key,
                           is_analyzing, button, after_queue, clock, runs,
                           extracted, constructed, errors, written, shown_meta,
                           written_meta, tails, infos, saved_results, source_path>>
       ELSE start_analysis_launch

\* lines 230-254: the button, while enabled, is pressed: one of the three
\* refusals, whose dialog opens, or a worker is started
start_analysis ==
  /\ mainpc = "idle"
  /\ button = "normal"
  /\ IF Refusal # "idle"
       THEN /\ mainpc' = Refusal
            /\ UNCHANGED <<pipeVars, progress_log, pdf_path, api_key,
                           current_results, is_analyzing, button, results_text,
                           tabs, after_queue, clock, runs, extracted,
                           constructed, errors, written, shown_meta,
                           written_meta, tails, infos, saved_results, source_path>>
       ELSE start_analysis_launch

\* lines 235, 239, 243: the dialog is closed and start_analysis returns
start_analysis_return ==
  /\ mainpc \in RefusalDialogs
  /\ mainpc' = "idle"
  /\ UNCHANGED <<pipeVars, progress_log, pdf_path, api_key, current_results,
                 is_analyzing, button, results_text, tabs, after_queue, clock,
                 runs, extracted, constructed, errors, written, shown_meta,
                 written_meta, tails, infos, saved_results, source_path>>

\* lines 393-403: nothing to save, or the file dialog opens
save_results ==
  /\ mainpc = "idle"
  /\ mainpc' = IF current_results = EmptyDict THEN "idle" ELSE "save_dialog"
  /\ UNCHANGED <<pipeVars, progress_log, pdf_path, api_key, current_results,
                 is_analyzing, button, results_text, tabs, after_queue, clock,
                 runs, extracted, constructed, errors, written, shown_meta,
                 written_meta, tails, infos, saved_results, source_path>>

\* a save that writes the entries without the layout of the report
save_results_write_plain ==
  /\ mainpc = "save_dialog"
  /\ mainpc' = "idle"
  /\ \E now \in clock..MaxClock :
       /\ clock' = now
       /\ written' = Some(Join([i \in DOMAIN current_results |-> current_results[i].v], "\n"))
       /\ written_meta' = [path |-> pdf_path, now |-> now]
       /\ saved_results' = current_results
  /\ UNCHANGED <<pipeVars, progress_log, pdf_path, api_key, current_results,
                 is_analyzing, button, results_text, tabs, after_queue, runs,
                 extracted, constructed, errors, shown_meta, tails, infos,
                 source_path>>

\* lines 405-415: the dialog is cancelled, the file cannot be written, or
\* the report is rendered and written
save_results_write ==
  /\ mainpc = "save_dialog"
  /\ mainpc' = "idle"
  /\ \/ UNCHANGED <<clock, written, written_meta, saved_results>>
     \/ \E now \in clock..MaxClock :
          /\ clock' = now
          /\ written' = Some(format_full_results(current_results, pdf_path, now))
          /\ written_meta' = [path |-> pdf_path, now |-> now]
          /\ saved_results' = current_results
  /\ UNCHANGED <<pipeVars, progress_log, pdf_path, api_key, current_results,
                 is_analyzing, button, results_text, tabs, after_queue, runs,
                 extracted, constructed, errors, shown_meta, tails, infos,
                 source_path>>

\* the event loop runs the oldest callback given to root.after
mainloop_after ==
  /\ after_queue # <<>>
  /\ after_queue' = Tail(after_queue)
  /\ button' = IF Head(after_queue) = "button_normal" THEN "normal" ELSE button
  /\ UNCHANGED <<pipeVars, progress_log, pdf_path, api_key, current_results,
                 is_analyzing, results_text, tabs, clock, mainpc, runs,
                 extracted, constructed, errors, written, shown_meta,
                 written_meta, tails, infos, saved_results, source_path>>

\* lines 258-270, 297-302: the text is extracted from the file found at the
\* path; an exception or no text ends the run with an error
run_analysis_extract ==
  /\ pc = "ra_extract"
  /\ \E f \in Files :
       LET r == extract_text(pdf_path, f) IN
       /\ extracted' = Some(r)
       /\ source_path' = pdf_path
       /\ IF r.kind = "raise"
            THEN /\ show_error((IF r.exc = "FileNotFoundError"
                                  THEN "Archivo no encontrado: "
                                  ELSE "Error durante el ana^lisis: ") \o r.msg)
                 /\ update_progress("Extrayendo texto...", 0, 1, 10)
                 /\ pc' = "ra_finally"
                 /\ UNCHANGED texto
            ELSE IF ~Truthy(r.value)
            THEN /\ show_error("El PDF no contiene texto extrai^ble")
                 /\ update_progress("Extrayendo texto...", 0, 1, 10)
                 /\ pc' = "ra_finally"
                 /\ UNCHANGED texto
            ELSE /\ texto' = r.value
                 /\ progress_log' =
                      progress_log \o
                        << [message |-> "Extrayendo texto...", num |-> 0, den |-> 1,
                            maximum |-> 10],
                           [message |-> "Texto extrai^do", num |-> 1, den |-> 1,
                            maximum |-> 10] >>
                 /\ pc' = "ra_construct"
                 /\ UNCHANGED <<after_queue, errors>>
  /\ UNCHANGED <<caller, op, callback, idx, total_steps, resultados, step,
                 inflight, lastResp, portChanges, trace, result, pdf_path, api_key,
                 current_results, is_analyzing, button, results_text, tabs, clock,
                 mainpc, runs, constructed, written, shown_meta,
                 written_meta, tails, infos, saved_results>>

\* lines 272-288, 300-302: the analyzer is constructed, or its constructor
\* raises; then analyze_article is called with the text and the callback
run_analysis_construct ==
  /\ pc = "ra_construct"
  /\ \/ /\ constructed' = TRUE
        /\ lastResp' = None
        /\ portChanges' = 0
        /\ update_progress("Analizador inicializado", 2, 1, 10)
        /\ pc' = "aa_validate"
        /\ UNCHANGED <<after_queue, errors>>
     \/ /\ show_error("Error durante el ana^lisis: " \o "client")
        /\ pc' = "ra_finally"
        /\ UNCHANGED <<constructed, lastResp, portChanges, progress_log>>
  /\ UNCHANGED <<caller, op, texto, callback, idx, total_steps, resultados, step,
                 inflight, trace, result, pdf_path, api_key, current_results,
                 is_analyzing, button, results_text, tabs, clock, mainpc, runs, extracted, written, shown_meta, written_meta, tails, infos, saved_results, source_path>>

\* a worker that treats a mapping with an error marker as a failed run
run_analysis_store_strict ==
  /\ pc = "ra_after_analyze"
  /\ IF /\ result[1].kind = "return"
        /\ \A i \in DOMAIN result[1].value :
             Take(result[1].value[i].v, 7) # "Error: "
       THEN /\ current_results' = result[1].value
            /\ pc' = "ra_display"
            /\ UNCHANGED <<after_queue, errors>>
       ELSE /\ show_error("Error durante el ana^lisis: " \o "Error: ")
            /\ pc' = "ra_finally"
            /\ UNCHANGED current_results
  /\ UNCHANGED <<caller, op, texto, callback, idx, total_steps, resultados, step,
                 inflight, lastResp, portChanges, trace, result, progress_log,
                 pdf_path, api_key, is_analyzing, button, results_text, tabs,
                 clock, mainpc, runs, extracted, constructed, written,
                 shown_meta, written_meta, tails, infos, saved_results, source_path>>

\* lines 285-291, 300-302: analyze_article returned and the mapping is kept,
\* or it raised and the error is shown
run_analysis_store ==
  /\ pc = "ra_after_analyze"
  /\ IF result[1].kind = "return"
       THEN /\ current_results' = result[1].value
            /\ pc' = "ra_display"
            /\ UNCHANGED <<after_queue, errors>>
       ELSE /\ show_error("Error durante el ana^lisis: " \o result[1].msg)
            /\ pc' = "ra_finally"
            /\ UNCHANGED current_results
  /\ UNCHANGED <<caller, op, texto, callback, idx, total_steps, resultados, step,
                 inflight, lastResp, portChanges, trace, result, progress_log,
                 pdf_path, api_key, is_analyzing, button, results_text, tabs,
                 clock, mainpc, runs, extracted, constructed, written,
                 shown_meta, written_meta, tails, infos, saved_results, source_path>>

\* lines 323-342: MainWindow.display_results(results)
display_results(results) ==
  \E now \in clock..MaxClock :
    /\ clock' = now
    /\ results_text' = format_full_results(results, pdf_path, now)
    /\ shown_meta' = [path |-> pdf_path, now |-> now]
    /\ tabs' = ResultTabs(results, 1)

\* lines 292-294
run_analysis_display ==
  /\ pc = "ra_display"
  /\ display_results(result[1].value)
  /\ pc' = "ra_showinfo"
  /\ UNCHANGED <<caller, op, texto, callback, idx, total_steps, resultados, step,
                 inflight, lastResp, portChanges, trace, result, progress_log,
                 pdf_path, api_key, current_results, is_analyzing, button,
                 after_queue, mainpc, runs, extracted, constructed, errors,
                 written, written_meta, tails, infos, saved_results, source_path>>

\* line 295: the worker shows the dialog of success, which is closed
run_analysis_showinfo ==
  /\ pc = "ra_showinfo"
  /\ infos' = Append(infos, "El ana^lisis se completo^ correctamente")
  /\ pc' = "ra_finally"
  /\ UNCHANGED <<caller, op, texto, callback, idx, total_steps, resultados, step,
                 inflight, lastResp, portChanges, trace, result, progress_log,
                 pdf_path, api_key, current_results, is_analyzing, button,
                 results_text, tabs, after_queue, clock, mainpc, runs, extracted,
                 constructed, errors, written, shown_meta, written_meta, tails,
                 saved_results, source_path>>

\* a worker that clears the flag at the end of the try block only
run_analysis_finally_on_success ==
  /\ pc = "ra_finally"
  /\ is_analyzing' = (errors # <<>>)
  /\ pc' = "ra_after"
  /\ UNCHANGED <<caller, op, texto, callback, idx, total_steps, resultados, step,
                 inflight, lastResp, portChanges, trace, result, progress_log,
                 pdf_path, api_key, current_results, button, results_text, tabs,
                 after_queue, clock, mainpc, runs, extracted, constructed, errors,
                 written, shown_meta, written_meta, tails, infos, saved_results, source_path>>

\* line 305
run_analysis_finally ==
  /\ pc = "ra_finally"
  /\ is_analyzing' = FALSE
  /\ pc' = "ra_after"
  /\ UNCHANGED <<caller, op, texto, callback, idx, total_steps, resultados, step,
                 inflight, lastResp, portChanges, trace, result, progress_log,
                 pdf_path, api_key, current_results, button, results_text, tabs,
                 after_queue, clock, mainpc, runs, extracted, constructed, errors,
                 written, shown_meta, written_meta, tails, infos, saved_results, source_path>>

\* line 306: the enabling of the button is given to the event loop
run_analysis_finally_button ==
  /\ pc = "ra_after"
  /\ after_queue' = Append(after_queue, "button_normal")
  /\ tails' = tails + 1
  /\ pc' = "idle"
  /\ UNCHANGED <<caller, op, texto, callback, idx, total_steps, resultados, step,
                 inflight, lastResp, portChanges, trace, result, progress_log,
                 pdf_path, api_key, current_results, is_analyzing, button,
                 results_text, tabs, clock, mainpc, runs, extracted, constructed,
                 errors, written, shown_meta, written_meta, infos, saved_results,
                 source_path>>

\* line 307: the emptying of the bar is given to the event loop and the
\* thread ends
run_analysis_finally_bar ==
  /\ tails > 0
  /\ tails' = tails - 1
  /\ UNCHANGED <<pipeVars, progress_log, pdf_path, api_key, current_results,
                 is_analyzing, button, results_text, tabs, after_queue, clock,
                 mainpc, runs, extracted, constructed, errors, written, shown_meta,
                 written_meta, infos, saved_results, source_path>>

(***************************************************************************)
(* The application: the user at the window, the worker, the event loop.    *)
(***************************************************************************)
InitGUI ==
  /\ caller = "gui"
  /\ op = "analyze_article"
  /\ texto = None
  /\ callback = "gui"
  /\ pc = "idle"
  /\ idx = 0
  /\ total_steps = 0
  /\ resultados = EmptyDict
  /\ step = NoStep
  /\ inflight = 0
  /\ lastResp = None
  /\ portChanges = 0
  /\ trace = <<>>
  /\ result = None
  /\ GuiInit
  /\ api_key \in ApiKeys
  /\ pdf_path = ""
  /\ current_results = EmptyDict

NextGUI ==
  \/ select_pdf
  \/ edit_api_key
  \/ clear_results_clicked
  \/ start_analysis
  \/ start_analysis_return
  \/ save_results
  \/ save_results_write
  \/ mainloop_after
  \/ run_analysis_extract
  \/ run_analysis_construct
  \/ analyze_article_validate
  \/ analyze_article_progress
  \/ analyze_article_call
  \/ analyze_article_store
  \/ analyze_article_return
  \/ run_analysis_store
  \/ run_analysis_display
  \/ run_analysis_showinfo
  \/ run_analysis_finally
  \/ run_analysis_finally_button
  \/ run_analysis_finally_bar

SpecGUI == InitGUI /\ [][NextGUI]_vars

\* the steps of the worker thread that runs run_analysis up to line 306
WorkerStep ==
  \/ run_analysis_extract
  \/ run_analysis_construct
  \/ analyze_article_validate
  \/ analyze_article_progress
  \/ analyze_article_call
  \/ analyze_article_store
  \/ analyze_article_return
  \/ run_analysis_store
  \/ run_analysis_display
  \/ run_analysis_showinfo
  \/ run_analysis_finally
  \/ run_analysis_finally_button

\* the application with threads that are scheduled, calls and dialogs of the
\* worker that return, and an event loop that runs
SpecGUIFair ==
  /\ InitGUI
  /\ [][NextGUI]_vars
  /\ WF_vars(WorkerStep)
  /\ WF_vars(run_analysis_finally_bar)
  /\ WF_vars(mainloop_after)

(***************************************************************************)
(* display_results called with a mapping of any shape.                     *)
(***************************************************************************)
RenderKeys == {"resumen_articulo", "metodologia", "conclusiones", "custom"}

RenderValues == {"x", "Error: boom "}

RECURSIVE MapsOfLen(_)
MapsOfLen(n) ==
  IF n = 0 THEN {EmptyDict}
  ELSE {Append(d, [k |-> key, v |-> val]) :
          d \in MapsOfLen(n - 1), key \in RenderKeys, val \in RenderValues}

\* mappings of up to MaxEntries entries in any order, and the whole mappings
\* of a run
DrawnMaps ==
  {d \in UNION {MapsOfLen(n) : n \in 0..MaxEntries} :
     \A i, j \in DOMAIN d : i # j => d[i].k # d[j].k}
    \cup {[i \in DOMAIN ANALYSIS_STEPS |-> [k |-> ANALYSIS_STEPS[i].name, v |-> val]] :
            val \in RenderValues}

InitRender ==
  /\ caller = "direct"
  /\ op = "display_results"
  /\ texto = None
  /\ callback = "none"
  /\ pc = "dr_call"
  /\ idx = 0
  /\ total_steps = 0
  /\ resultados = EmptyDict
  /\ step = NoStep
  /\ inflight = 0
  /\ lastResp = None
  /\ portChanges = 0
  /\ trace = <<>>
  /\ result \in {Some(Return(d)) : d \in DrawnMaps}
  /\ GuiInit
  /\ api_key = ""
  /\ pdf_path \in {"", "/docs/B.PDF"}
  /\ current_results = EmptyDict

\* display_results(results), results being the mapping drawn
display_results_call ==
  /\ pc = "dr_call"
  /\ display_results(result[1].value)
  /\ pc' = "done"
  /\ UNCHANGED <<caller, op, texto, callback, idx, total_steps, resultados, step,
                 inflight, lastResp, portChanges, trace, result, progress_log,
                 pdf_path, api_key, current_results, is_analyzing, button,
                 after_queue, mainpc, runs, extracted, constructed, errors,
                 written, written_meta, tails, infos, saved_results, source_path>>

NextRender == display_results_call

SpecRender == InitRender /\ [][NextRender]_vars

(***************************************************************************)
(* The analyzer called directly.                                           *)
(***************************************************************************)
Init ==
  /\ caller = "direct"
  /\ op \in {"analyze_article", "analyze_custom_step"}
  /\ texto \in TextArgs
  /\ op = "analyze_custom_step" => texto # None
  /\ callback \in {"none", "external"}
  /\ op = "analyze_custom_step" => callback = "none"
  /\ pc = IF op = "analyze_article" THEN "aa_validate" ELSE "cs_call"
  /\ idx = 0
  /\ total_steps = 0
  /\ resultados = EmptyDict
  /\ step = NoStep
  /\ inflight = 0
  /\ lastResp = None
  /\ portChanges = 0
  /\ trace = <<>>
  /\ result = None
  /\ GuiInit
  /\ api_key = ""
  /\ pdf_path = ""
  /\ current_results = EmptyDict

Next ==
  \/ analyze_article_validate
  \/ analyze_article_progress
  \/ analyze_article_call
  \/ analyze_article_store
  \/ analyze_article_return
  \/ analyze_custom_step_call
  \/ analyze_custom_step_return

Spec == Init /\ [][Next]_vars

(***************************************************************************)
(* Vocabulary of the properties.                                           *)
(***************************************************************************)
IsBlank(s) == \A i \in 1..Len(s) : SubSeq(s, i, i) \in Whitespace

StartsWith(s, p) == Len(s) >= Len(p) /\ SubSeq(s, 1, Len(p)) = p

\* t is s without its leading and trailing whitespace
IsTrimOf(t, s) ==
  \E i \in 1..(Len(s) + 1) : \E j \in 0..Len(s) :
    /\ t = SubSeq(s, i, j)
    /\ IsBlank(SubSeq(s, 1, i - 1))
    /\ IsBlank(SubSeq(s, j + 1, Len(s)))
    /\ t # "" => /\ SubSeq(t, 1, 1) \notin Whitespace
                 /\ SubSeq(t, Len(t), Len(t)) \notin Whitespace

CatalogNames == [i \in DOMAIN ANALYSIS_STEPS |-> ANALYSIS_STEPS[i].name]

Article == op = "analyze_article"

Custom == op = "analyze_custom_step"

ValidText == texto # None /\ ~IsBlank(texto[1])

Returned == result # None /\ result[1].kind = "return"

Raised == result # None /\ result[1].kind = "raise"

Failed(r) == ~(r.kind = "choices" /\ r.content # None)

(***************************************************************************)
(* Properties of the analyzer called directly (Spec).                      *)
(***************************************************************************)
\* C1: the catalog's names are pairwise distinct; the mapping analyze_article
\* returns has one entry per catalog step, its keys are the catalog's names in
\* catalog order; and with a valid text and no callback the call returns,
\* whatever the completion calls did.
C1_OneEntryPerStep ==
  /\ Cardinality(StepNames) = Len(ANALYSIS_STEPS)
  /\ (Article /\ Returned) =>
       /\ Len(result[1].value) = Len(ANALYSIS_STEPS)
       /\ Keys(result[1].value) = StepNames
       /\ KeyList(result[1].value) = CatalogNames
  /\ (Article /\ pc = "done" /\ ValidText /\ callback = "none") => Returned

\* a returned mapping of a run in which some steps failed and some did not
C1_Witness ==
  /\ Article /\ Returned /\ texto = Some(" a b\n")
  /\ \E i, j \in DOMAIN Stores : Failed(Stores[i].resp) /\ ~Failed(Stores[j].resp)

\* C2: with a text that is None, empty or whitespace only, analyze_article
\* raises ValueError and nothing else happens: no callback invocation, no
\* completion call, no mapping.
C2_EmptyTextRejected ==
  (Article /\ (texto = None \/ IsBlank(texto[1]))) =>
    /\ trace = <<>>
    /\ inflight = 0
    /\ lastResp = None
    /\ resultados = EmptyDict
    /\ pc \in {"aa_validate", "done"}
    /\ pc = "done" => Raised /\ result[1].exc = "ValueError"

\* a whitespace-only text, with a callback, rejected
C2_Witness ==
  /\ Article /\ texto = Some(" \n") /\ callback = "external"
  /\ pc = "done" /\ Raised /\ result[1].exc = "ValueError"

\* C3: the k-th invocation of the callback carries the k-th catalog step's
\* name and description, the index k and the total; a run that returns has
\* invoked it exactly total times, whatever steps failed.
C3_ProgressCalls ==
  Article =>
    /\ callback = "none" => Sinks = <<>>
    /\ Len(Sinks) <= Len(ANALYSIS_STEPS)
    /\ \A k \in DOMAIN Sinks :
         Sinks[k] = [ev |-> "sink", idx |-> k, name |-> ANALYSIS_STEPS[k].name,
                     description |-> ANALYSIS_STEPS[k].description,
                     total |-> Len(ANALYSIS_STEPS)]
    /\ (callback # "none" /\ Returned) => Len(Sinks) = Len(ANALYSIS_STEPS)

\* a run with a callback in which every step failed
C3_Witness ==
  /\ Article /\ callback = "external" /\ Returned
  /\ \A i \in DOMAIN Stores : Stores[i].resp.kind = "raise"

\* C4: the entry of a step is the trimmed content when the completion call
\* gave content, and "Error: " followed by the message when it raised; a
\* failed step does not end the run: the only ways out of the loop are the
\* return after the last step and an exception of the callback.
C4_EntryPerOutcome ==
  Article =>
    /\ Len(Stores) = Len(resultados)
    /\ \A k \in DOMAIN Stores :
         /\ resultados[k].k = ANALYSIS_STEPS[k].name
         /\ (Stores[k].resp.kind = "choices" /\ Stores[k].resp.content # None) =>
              IsTrimOf(resultados[k].v, Stores[k].resp.content[1])
         /\ Stores[k].resp.kind = "raise" =>
              resultados[k].v = "Error: " \o Stores[k].resp.msg
    /\ (pc = "done" /\ Len(Stores) > 0) =>
         \/ Returned /\ Len(Stores) = Len(ANALYSIS_STEPS)
         \/ Raised /\ result[1].exc = "CallbackError"

\* a returned run in which a step raised and the next one gave content
C4_Witness ==
  /\ Article /\ Returned
  /\ \E k \in DOMAIN Stores :
       /\ k < Len(Stores)
       /\ Stores[k].resp = ClientError("boom ")
       /\ Stores[k + 1].resp = Content(Some(" a b\n"))
       /\ result[1].value[k].v = "Error: boom "
       /\ result[1].value[k + 1].v = "a b"

\* C5: once the text is valid, analyze_article returns a mapping, whatever
\* the completion calls and the callback do.
C5_NeverFailsAfterValidation ==
  (Article /\ ValidText /\ pc = "done") => Returned

(***************************************************************************)
(* The report, as a reader of the text sees it.                            *)
(***************************************************************************)
UpperDescriptions ==
  << "RESUMEN DEL ARTI^CULO", "BASES TEO^RICAS", "METODOLOGI^A", "CONCEPTOS CLAVE",
     "OBJETIVOS DE INVESTIGACIO^N", "RESULTADOS PRINCIPALES", "EVALUACIO^N CRI^TICA",
     "CONTEXTUALIZACIO^N EN LA LITERATURA", "IMPLICACIONES Y FUTURAS DIRECCIONES",
     "CONCLUSIONES" >>

TabTitles ==
  << "Resumen del Arti^culo", "Bases Teo^ricas", "Metodologi^a", "Conceptos Clave",
     "Objetivos de Investi", "Resultados Principal", "Evaluacio^n Cri^tica",
     "Contextualizacio^n en", "Implicaciones y Futu", "Conclusiones" >>

\* the text of the first entry of m under key
EntryOf(m, key) == m[CHOOSE j \in DOMAIN m : m[j].k = key].v

\* the catalog steps that have an entry in m
PresentSteps(m) ==
  {i \in DOMAIN ANALYSIS_STEPS : \E j \in DOMAIN m : m[j].k = CatalogNames[i]}

\* the section of catalog step i with the text t, as it follows what
\* precedes it in the report
SectionText(i, t) ==
  "\n\n" \o DashRule \o "\n\n" \o UpperDescriptions[i] \o "\n" \o DashRule
    \o "\n\n" \o t \o "\n"

\* the sections of the steps of set S that are at or after step i, in
\* catalog order
RECURSIVE SectionsText(_, _, _)
SectionsText(m, S, i) ==
  IF i > Len(ANALYSIS_STEPS) THEN ""
  ELSE (IF i \in S THEN SectionText(i, EntryOf(m, CatalogNames[i])) ELSE "")
       \o SectionsText(m, S, i + 1)

\* the head of the report rendered with the path and clock of meta
HeaderText(meta) == Join(FormatHeader(meta.path, meta.now), "\n")

\* the steps of S in catalog order
RECURSIVE Ascending(_, _)
Ascending(S, i) ==
  IF i > Len(ANALYSIS_STEPS) THEN <<>>
  ELSE (IF i \in S THEN <<i>> ELSE <<>>) \o Ascending(S, i + 1)

\* the mapping display_results was called with
Rendered == result[1].value

\* C6: the report display_results shows for a mapping is its head followed
\* by one section per catalog step that has an entry in the mapping, in
\* catalog order whatever the order of the mapping, each section being the
\* uppercased description followed by the entry; steps without an entry and
\* keys that are no catalog step have no section; the tabs are the same steps
\* in the same order, titled by the first 20 characters of the description.
C6_SectionsInCatalogOrder ==
  pc = "done" =>
    /\ results_text =
         HeaderText(shown_meta) \o SectionsText(Rendered, PresentSteps(Rendered), 1)
    /\ LET present == Ascending(PresentSteps(Rendered), 1) IN
       /\ Len(tabs) = Len(present)
       /\ \A n \in DOMAIN tabs :
            /\ tabs[n].title = TabTitles[present[n]]
            /\ tabs[n].content = EntryOf(Rendered, CatalogNames[present[n]])

\* a mapping in another order than the catalog, with a key that is no
\* catalog step and steps that are missing, has been rendered
C6_Witness ==
  /\ pc = "done"
  /\ Rendered = << [k |-> "conclusiones", v |-> "x"],
                   [k |-> "custom", v |-> "x"],
                   [k |-> "resumen_articulo", v |-> "Error: boom "] >>
  /\ Len(tabs) = 2
  /\ tabs[1].title = "Resumen del Arti^culo"
  /\ tabs[2].content = "x"
  /\ results_text =
       HeaderText(shown_meta) \o SectionText(1, "Error: boom ") \o SectionText(10, "x")

\* a report has been shown and a report written since the run started
ShownAndSaved == results_text # "" /\ written # None

\* the text of a report after its head
Body(text, meta) == SubSeq(text, Len(HeaderText(meta)) + 1, Len(text))

C8_StepNeverRaises ==
  (Custom /\ pc = "done") => Returned

\* C8 amended: _analyze_step returns the trimmed content, or the fixed text
\* when there are no choices; an exception of the client, or a null content,
\* is raised again to the caller.  analyze_custom_step hands it on;
\* analyze_article turns it into an entry, so no step exception leaves it.
C8_StepRaisesOrReturns ==
  /\ (Custom /\ pc = "done") =>
       /\ lastResp[1].kind = "raise" =>
            Raised /\ result[1].msg = lastResp[1].msg
       /\ (lastResp[1].kind = "choices" /\ lastResp[1].content = None) =>
            Raised /\ result[1].exc = "AttributeError"
       /\ lastResp[1].kind = "nochoices" =>
            Returned /\ result[1].value = "Error: No se obtuvo respuesta del modelo"
       /\ (lastResp[1].kind = "choices" /\ lastResp[1].content # None) =>
            Returned /\ IsTrimOf(result[1].value, lastResp[1].content[1])
  /\ (Article /\ Raised) => result[1].exc \in {"ValueError", "CallbackError"}

\* a custom step whose completion call raised
C8_Witness ==
  /\ Custom /\ pc = "done" /\ lastResp = Some(ClientError("boom "))
  /\ Raised /\ result[1].msg = "boom "

\* the worker is inside analyze_article
InPipeline == pc \in {"aa_validate", "aa_progress", "aa_call", "aa_wait", "aa_return",
                      "ra_after_analyze"}

\* the extraction of the current run raised or found no text
NoTextExtracted ==
  /\ extracted # None
  /\ extracted[1].kind = "raise" \/ extracted[1].value = None

\* C9: what extract_text returns is None or a non-empty string without
\* leading or trailing whitespace; when it raises or returns None,
\* run_analysis shows an error and ends without constructing an analyzer,
\* calling analyze_article or issuing a completion call; analyze_article runs
\* with a text that is not blank.
C9_NoEmptyTextToPipeline ==
  /\ (extracted # None /\ extracted[1].kind = "return" /\ extracted[1].value # None)
       => /\ ~IsBlank(extracted[1].value[1])
          /\ IsTrimOf(extracted[1].value[1], extracted[1].value[1])
  /\ NoTextExtracted
       => /\ Len(errors) = 1
          /\ pc \in {"ra_finally", "ra_after", "idle"}
          /\ ~constructed
          /\ result = None
          /\ trace = <<>>
          /\ inflight = 0
  /\ InPipeline => (constructed /\ ValidText /\ extracted = Some(Return(texto)))

\* a PDF whose only page is blank was extracted and the run ended with the
\* error shown
C9_Witness ==
  /\ extracted = Some(Return(None))
  /\ errors = << "El PDF no contiene texto extrai^ble" >>
  /\ pc = "idle"
  /\ ~constructed
  /\ trace = <<>>

\* C10: with a callback, the events of a run are sink(1), call(1), store(1),
\* sink(2), call(2), store(2), ...; a completion call is in flight exactly
\* between its call and its store.
C10_SinkBeforeCall ==
  (Article /\ callback # "none") =>
    /\ \A i \in DOMAIN trace :
         /\ trace[i].ev = <<"sink", "call", "store">>[((i - 1) % 3) + 1]
         /\ trace[i].idx = ((i - 1) \div 3) + 1
    /\ inflight = IF trace # <<>> /\ trace[Len(trace)].ev = "call" THEN 1 ELSE 0

\* a whole run with a callback
C10_Witness ==
  /\ Article /\ callback = "external" /\ Returned
  /\ Len(trace) = 3 * Len(ANALYSIS_STEPS)

\* C11: the callback is invoked for a step once the completion call of that
\* step has been answered: every invocation for step k is preceded by the
\* storing of the entry of step k, whether the step failed or not.
C11_ProgressAtCompletion ==
  Article =>
    \A i \in DOMAIN trace :
      trace[i].ev = "sink" =>
        \E j \in 1..(i - 1) : trace[j].ev = "store" /\ trace[j].idx = trace[i].idx

\* the number of steps whose completion call has been answered
Finished == Len(Stores)

\* m with its first n items
FirstItems(m, n) == [i \in 1..n |-> m[i]]

\* C12: during a run the keys of the mapping are the names of the first k
\* catalog steps, in that order, k being the number of steps whose completion
\* call has been answered; a step of the run keeps every entry there is, with
\* its place, key and text, and adds at most one after them.
C12_MappingGrowsByStep ==
  /\ [](Article => /\ Len(resultados) = Finished
                   /\ KeyList(resultados) = FirstItems(CatalogNames, Finished))
  /\ [][Article => /\ Len(resultados') \in {Len(resultados), Len(resultados) + 1}
                   /\ FirstItems(resultados', Len(resultados)) = resultados]_vars

\* a failed step followed the storing of a text and stored its own entry
\* after it
C12_Witness ==
  /\ Article /\ pc = "aa_progress" /\ idx = 4
  /\ Len(resultados) = 3
  /\ resultados[1].v = "a b"
  /\ StartsWith(resultados[2].v, "Error: ")
  /\ StartsWith(resultados[3].v, "Error: ")

\* C13: the k-th completion call of a run carries the prompt of the k-th
\* catalog step and the text of the article; a step whose entry is stored is
\* never called again, so that there is one call per stored entry and at most
\* one more, the one in flight; a run that returns made exactly one call per
\* catalog step.
C13_OneCallPerStep ==
  Article =>
    /\ \A k \in DOMAIN Calls :
         /\ k <= Len(ANALYSIS_STEPS)
         /\ Calls[k].idx = k
         /\ Calls[k].prompt = ANALYSIS_STEPS[k].prompt
         /\ Calls[k].texto = texto[1]
    /\ Len(Calls) = Len(Stores) + inflight
    /\ Returned => Len(Calls) = Len(ANALYSIS_STEPS)

\* a run that returned after its third step failed
C13_Witness ==
  /\ Article /\ Returned
  /\ Len(Calls) = 10
  /\ Stores[3].resp = ClientError("boom ")
  /\ Calls[4].prompt = ANALYSIS_STEPS[4].prompt

\* C15: when the response has no choices, or a first choice whose content is
\* None, the entry of the step starts with "Error: ", and the run goes on: it
\* ends by returning the mapping of all steps, or by an exception of the
\* callback, never by the fault.
C15_MalformedResponseAbsorbed ==
  Article =>
    /\ \A k \in DOMAIN Stores :
         Stores[k].resp \in {NoChoices, Content(None)} =>
           /\ k \in DOMAIN resultados
           /\ resultados[k].k = ANALYSIS_STEPS[k].name
           /\ StartsWith(resultados[k].v, "Error: ")
    /\ (Raised /\ ValidText) => result[1].exc = "CallbackError"
    /\ (pc = "done" /\ ~Raised) => Returned /\ Len(Stores) = Len(ANALYSIS_STEPS)

\* a run returned in which a response had no choices and another had None
\* for content
C15_Witness ==
  /\ Article /\ Returned
  /\ \E i, j \in DOMAIN Stores :
       /\ Stores[i].resp = NoChoices
       /\ Stores[j].resp = Content(None)
       /\ result[1].value[i].v = "Error: No se obtuvo respuesta del modelo"
       /\ result[1].value[j].v = "Error: 'NoneType' object has no attribute 'strip'"

\* the worker threads that have been started and have not ended: the one
\* between its start and line 306, and those that have line 307 left
Workers == (IF pc = "idle" THEN 0 ELSE 1) + tails

\* C14: at most one completion call is in flight, and at most one worker
\* thread is running, whatever the user does at the window.
C14_OneWorkerAtATime ==
  /\ inflight <= 1
  /\ Workers <= 1

\* analyze_article has returned a mapping to the worker
AnalysisReturned == result # None /\ result[1].kind = "return"

\* the worker is at the place p and leaves it
WorkerLeaves(p) == pc = p /\ pc' # p

\* C16: when analyze_article returns, the worker keeps the mapping, displays
\* it and shows the dialog of success, whatever the entries are; the dialog of
\* error is shown only in a run that returned no mapping, and never together
\* with the dialog of success.
C16_FailedStepsStillCompleted ==
  /\ [](errors # <<>> => ~AnalysisReturned /\ infos = <<>>)
  /\ [](infos # <<>> => AnalysisReturned)
  /\ [][(WorkerLeaves("ra_after_analyze") /\ AnalysisReturned) =>
          /\ current_results' = result[1].value
          /\ pc' = "ra_display"
          /\ errors' = errors]_vars
  /\ [][WorkerLeaves("ra_display") =>
          /\ results_text' = format_full_results(result[1].value, pdf_path, clock')
          /\ Len(tabs') = Len(result[1].value)
          /\ pc' = "ra_showinfo"]_vars
  /\ [][WorkerLeaves("ra_showinfo") =>
          /\ infos' = Append(infos, "El ana^lisis se completo^ correctamente")
          /\ errors' = errors]_vars

\* a run all of whose steps failed was displayed and reported as a success
C16_Witness ==
  /\ AnalysisReturned
  /\ \A i \in DOMAIN result[1].value : StartsWith(result[1].value[i].v, "Error: ")
  /\ current_results = result[1].value
  /\ results_text # ""
  /\ Len(tabs) = Len(ANALYSIS_STEPS)
  /\ infos # <<>>
  /\ errors = <<>>

\* m has one entry per step of the catalog, in the order of the catalog
Complete(m) == Len(m) = Len(ANALYSIS_STEPS) /\ KeyList(m) = CatalogNames

\* C17: current_results is empty or has one entry per catalog step; the
\* dialog of save_results opens only over such a mapping, and every report
\* written was rendered from one.
C17_ResultsEmptyOrComplete ==
  /\ current_results = EmptyDict \/ Complete(current_results)
  /\ mainpc = "save_dialog" => Complete(current_results)
  /\ written # None =>
       /\ Complete(saved_results)
       /\ written[1] =
            format_full_results(saved_results, written_meta.path, written_meta.now)

\* a report was written while the worker of the run had not yet displayed
\* the mapping it had just kept
C17_Witness ==
  /\ pc = "ra_display"
  /\ is_analyzing
  /\ written # None
  /\ Complete(saved_results)
  /\ saved_results = result[1].value

\* C18: the report displayed and the report written carry, in the line
\* "Archivo:", the name of the file the text of the run was extracted from:
\* they are the renderings of their mappings under the path that
\* extract_text was given.
C18_HeaderNamesSource ==
  /\ results_text # "" =>
       results_text = format_full_results(result[1].value, source_path, shown_meta.now)
  /\ written # None =>
       written[1] = format_full_results(saved_results, source_path, written_meta.now)

\* the fraction of the update u, (num / den) / maximum, is at most that of v
FractionLeq(u, v) ==
  u.num * v.den * v.maximum <= v.num * u.den * u.maximum

\* C20: the fractions of the updates of the bar requested by the worker of a
\* run, in the order of the requests, never decrease.
C20_ProgressNeverDecreases ==
  \A i \in 1..(Len(progress_log) - 1) :
    FractionLeq(progress_log[i], progress_log[i + 1])

\* the enabling of the button has been given to the event loop, or done
ButtonScheduled ==
  \/ button = "normal"
  \/ \E i \in DOMAIN after_queue : after_queue[i] = "button_normal"

\* C19: a worker that has been started, whatever the outcome of its run,
\* clears is_analyzing and schedules the enabling of the button, and the
\* window comes to a state in which start_analysis starts a worker again.
C19_WorkerClearsBusy ==
  /\ is_analyzing ~> (~is_analyzing /\ ButtonScheduled)
  /\ is_analyzing ~> (~is_analyzing /\ button = "normal")

\* a worker whose run ended with the dialog of error has ended, the flag is
\* cleared and the button enabled
C19_Witness ==
  /\ runs > 0
  /\ errors # <<>>
  /\ pc = "idle" /\ tails = 0
  /\ ~is_analyzing
  /\ button = "normal"

\* the main thread goes from the window into a dialog of start_analysis:
\* a start is refused
StartRefused == mainpc = "idle" /\ mainpc' \in RefusalDialogs

\* a worker thread is started
WorkerStarted == runs' = runs + 1

\* C21: a start is refused only when the key is empty, no file is selected
\* or an analysis is in progress, and the refusal starts no worker and
\* leaves the results, their display, the flag and the button as they were;
\* a worker is started only when none of the three holds, and it is then
\* that the results are cleared.
C21_RefusedStartChangesNothing ==
  /\ [][StartRefused =>
          /\ api_key = "" \/ pdf_path = "" \/ is_analyzing
          /\ UNCHANGED <<current_results, results_text, tabs>>
          /\ UNCHANGED <<is_analyzing, button>>
          /\ UNCHANGED <<pc, runs, tails>>]_vars
  /\ [][(mainpc = "idle" /\ (api_key = "" \/ pdf_path = "" \/ is_analyzing)) =>
          ~WorkerStarted]_vars
  /\ [][WorkerStarted =>
          /\ api_key # "" /\ pdf_path # "" /\ ~is_analyzing
          /\ current_results' = EmptyDict /\ results_text' = "" /\ tabs' = <<>>
          /\ is_analyzing' /\ button' = "disabled"]_vars

\* after a run whose report is displayed the key was emptied and the start
\* refused: the results of the run are still there
C21_Witness ==
  /\ mainpc = "showerror_api_key"
  /\ api_key = ""
  /\ Complete(current_results)
  /\ results_text # ""
  /\ tabs # <<>>
  /\ ~is_analyzing
  /\ button = "normal"
  /\ pc = "idle"

====
